---- MODULE Spec2Model ----
(***************************************************************************)
(* CodexPricingSource (apps/codex/src/pricing.ts): resolution of a model's *)
(* token pricing through a strict lookup, an alias and a relaxed lookup.   *)
(*                                                                         *)
(* A JavaScript object is a function from its present field names to their *)
(* values; null and undefined are the empty function NULL, so that         *)
(* `x != null` is x # NULL and `o?.f != null` is "f" \in DOMAIN o.         *)
(* Per-token costs are integers (a fixed unit); floating-point rounding of *)
(* the multiplication by MILLION is not modelled.                          *)
(***************************************************************************)
EXTENDS Integers, Sequences, FiniteSets, TLC

\* ---------------------------------------------------------------- bounds
\* At most this many keys are present in a catalog.
MaxEntries == 2
\* Number of getPricing calls in flight in the interleaved specification.
NumCalls == 2

\* ------------------------------------------------------------- constants
MILLION == 1000000

CODEX_PROVIDER_PREFIXES == <<"openai/", "azure/", "openrouter/openai/">>

CODEX_MODEL_ALIASES_MAP ==
    ("gpt-5-codex" :> "gpt-5") @@ ("gpt-5.3-codex" :> "gpt-5.2-codex")

NULL == <<>>

\* ------------------------------------------------------------ input sets
\* The model names getPricing is called with: one that has an alias, and
\* its alias, which has none.
ModelSeq == <<"gpt-5.3-codex", "gpt-5.2-codex">>

Models == {ModelSeq[i] : i \in 1..Len(ModelSeq)}

\* ----------------------------------------------------- getStrictPricing
\* candidates = [model, ...CODEX_PROVIDER_PREFIXES.map(p => `${p}${model}`)]
Candidates(model) ==
    <<model>> \o [i \in 1..Len(CODEX_PROVIDER_PREFIXES) |->
                    CODEX_PROVIDER_PREFIXES[i] \o model]

\* pricingMap.get(key)
MapGet(pricingMap, key) ==
    IF key \in DOMAIN pricingMap THEN pricingMap[key] ELSE NULL

\* Mutant of FirstPresent: an entry without both costs is skipped.
RECURSIVE FirstPresent_SkipIncomplete(_, _, _)
FirstPresent_SkipIncomplete(pricingMap, candidates, i) ==
    IF i > Len(candidates) THEN NULL
    ELSE IF {"input_cost_per_token", "output_cost_per_token"}
                \subseteq DOMAIN MapGet(pricingMap, candidates[i])
         THEN MapGet(pricingMap, candidates[i])
         ELSE FirstPresent_SkipIncomplete(pricingMap, candidates, i + 1)

\* for (const candidate of candidates) { if (get(candidate) != null) return it }
\* return null
RECURSIVE FirstPresent(_, _, _)
FirstPresent(pricingMap, candidates, i) ==
    IF i > Len(candidates) THEN NULL
    ELSE IF MapGet(pricingMap, candidates[i]) # NULL
         THEN MapGet(pricingMap, candidates[i])
         ELSE FirstPresent(pricingMap, candidates, i + 1)

StrictLookup(pricingMap, model) ==
    FirstPresent(pricingMap, Candidates(model), 1)

\* ------------------------------------------------------------- catalogs
CostFields ==
    {"input_cost_per_token", "output_cost_per_token",
     "cache_read_input_token_cost"}

\* Every key a strict lookup of a name in Models can read.
KeySeq ==
    Candidates(ModelSeq[1]) \o Candidates(ModelSeq[2])

CatalogKeys == {KeySeq[i] : i \in 1..Len(KeySeq)}

KeyId(key) == (CHOOSE i \in 1..Len(KeySeq) : KeySeq[i] = key) - 1

ModelId(name) == (CHOOSE i \in 1..Len(ModelSeq) : ModelSeq[i] = name) - 1

\* An entry with the cost fields `fields` present. Its costs are functions of
\* `id`, so entries of different ids share no cost value; id 0 has an input
\* cost of 0. Every entry has the token-limit field.
Entry(id, fields) ==
    [f \in fields \cup {"max_tokens"} |->
        CASE f = "input_cost_per_token" -> 3 * id
          [] f = "output_cost_per_token" -> 3 * id + 1
          [] f = "cache_read_input_token_cost" -> 3 * id + 2
          [] OTHER -> 128000]

\* The cost fields present in a catalog entry: none (token limits only),
\* one alone, both costs, all three.
EntryShapes ==
    {{}, {"input_cost_per_token"}, {"output_cost_per_token"},
     {"cache_read_input_token_cost"},
     {"input_cost_per_token", "output_cost_per_token"}, CostFields}

\* The catalogs: at most MaxEntries keys present, each entry of one of the
\* shapes.
Catalogs ==
    UNION { { [k \in K |-> Entry(KeyId(k), sh[k])] : sh \in [K -> EntryShapes] }
            : K \in {S \in SUBSET CatalogKeys : Cardinality(S) <= MaxEntries} }

\* ------------------------------------------------------ byethrow Result
Success(value) == [type |-> "Success", value |-> value]

Failure(error) == [type |-> "Failure", error |-> error]

isFailure(result) == result.type = "Failure"

\* The error a failing Catalog Accessor call returns.
CatalogError(op, name) ==
    [name |-> "CatalogRetrievalError", op |-> op, arg |-> name]

\* ---------------------------------------------------- pricing helpers
\* o.f, undefined when the field is absent (also when o is null: `o?.f`).
Field(o, f) == IF f \in DOMAIN o THEN <<o[f]>> ELSE NULL

\* Mutant of toPerMillion: the fallback is ignored, (value ?? 0) * MILLION.
toPerMillion_NoFallback(value, fallback) ==
    (IF value # NULL THEN value[1] ELSE 0) * MILLION

\* toPerMillion(value, fallback): (value ?? fallback ?? 0) * MILLION.
\* An optional number is <<n>> when present and NULL when undefined.
toPerMillion(value, fallback) ==
    (IF value # NULL THEN value[1]
     ELSE IF fallback # NULL THEN fallback[1]
     ELSE 0) * MILLION

\* Mutant of hasCompleteTokenPricing: the output cost is not looked at.
hasCompleteTokenPricing_InputOnly(pricing) ==
    Field(pricing, "input_cost_per_token") # NULL

\* pricing?.input_cost_per_token != null && pricing.output_cost_per_token != null
hasCompleteTokenPricing(pricing) ==
    /\ Field(pricing, "input_cost_per_token") # NULL
    /\ Field(pricing, "output_cost_per_token") # NULL

\* The record getPricing returns for `pricing`.
ModelPricing(pricing) ==
    [inputCostPerMToken |->
        toPerMillion(Field(pricing, "input_cost_per_token"), NULL),
     cachedInputCostPerMToken |->
        toPerMillion(Field(pricing, "cache_read_input_token_cost"),
                     Field(pricing, "input_cost_per_token")),
     outputCostPerMToken |->
        toPerMillion(Field(pricing, "output_cost_per_token"), NULL)]

\* Mutant of NotFoundError: the message names the alias when there is one.
NotFoundError_Alias(model) ==
    [name |-> "Error",
     message |-> "Pricing not found for model " \o
                    (IF model \in DOMAIN CODEX_MODEL_ALIASES_MAP
                     THEN CODEX_MODEL_ALIASES_MAP[model] ELSE model)]

\* new Error(`Pricing not found for model ${model}`)
NotFoundError(model) ==
    [name |-> "Error", message |-> "Pricing not found for model " \o model]

\* const alias = CODEX_MODEL_ALIASES_MAP.get(model); alias != null
HasAlias(model) == model \in DOMAIN CODEX_MODEL_ALIASES_MAP

\* The alias of a model that has one.
AliasOf(model) == CODEX_MODEL_ALIASES_MAP[model]

\* ------------------------------------------------ one call of getPricing
\* The locals of a call: its position (the await it is suspended at), the
\* argument `model`, the local `pricing`, and how it ended. `log` is the
\* history of its Catalog Accessor calls: the method, the name the lookup
\* is for, whether it failed (and the error), and the entry a relaxed
\* lookup answered. `interleaved` is history too: whether the call has
\* resumed while another call was in flight.
IdleCall ==
    [pc |-> "idle", model |-> "", pricing |-> NULL, outcome |-> NULL,
     log |-> <<>>, interleaved |-> FALSE]

\* getPricing(model) up to its first await.
StartCall(model) ==
    [pc |-> "strictModel", model |-> model, pricing |-> NULL,
     outcome |-> NULL, log |-> <<>>, interleaved |-> FALSE]

Logged(l, op, name, result) ==
    [l EXCEPT !.log = Append(@,
        [op |-> op, for |-> name, failed |-> isFailure(result),
         error |-> IF isFailure(result) THEN result.error ELSE NULL,
         answer |-> IF ~isFailure(result) /\ op = "getModelPricing"
                    THEN result.value ELSE NULL])]

\* throw error
Throw(l, error) ==
    [l EXCEPT !.pc = "done", !.outcome = [threw |-> error]]

\* if (!hasCompleteTokenPricing(pricing)) throw ...; return {...}
Finish(l) ==
    IF ~hasCompleteTokenPricing(l.pricing)
    THEN Throw(l, NotFoundError(l.model))
    ELSE [l EXCEPT !.pc = "done",
                   !.outcome = [returned |-> ModelPricing(l.pricing)]]

\* Mutant of RelaxedOrFinish: the relaxed lookup of the model is always made.
RelaxedOrFinish_Always(l) == [l EXCEPT !.pc = "relaxedModel"]

\* if (!hasCompleteTokenPricing(pricing)) { await getRelaxedPricing(model) ...
RelaxedOrFinish(l) ==
    IF ~hasCompleteTokenPricing(l.pricing)
    THEN [l EXCEPT !.pc = "relaxedModel"]
    ELSE Finish(l)

\* Mutant of ResumeStrictModel: the alias is never tried.
ResumeStrictModel_NoAlias(l, lookup) ==
    LET l1 == Logged(l, "fetchModelPricing", l.model, lookup) IN
    IF isFailure(lookup) THEN Throw(l1, lookup.error)
    ELSE RelaxedOrFinish([l1 EXCEPT !.pricing = StrictLookup(lookup.value, l.model)])

\* Mutant of ResumeStrictModel: one fetch per candidate key.
ResumeStrictModel_FetchPerCandidate(l, lookup) ==
    LET l0 == Logged(l, "fetchModelPricing", l.model, lookup)
        l1 == Logged(l0, "fetchModelPricing", l.model, lookup) IN
    IF isFailure(lookup) THEN Throw(l1, lookup.error)
    ELSE LET l2 == [l1 EXCEPT !.pricing = StrictLookup(lookup.value, l.model)] IN
         IF ~hasCompleteTokenPricing(l2.pricing) /\ HasAlias(l.model)
         THEN [l2 EXCEPT !.pc = "strictAlias"]
         ELSE RelaxedOrFinish(l2)

\* let pricing = await this.getStrictPricing(model), and on to the next await.
ResumeStrictModel(l, lookup) ==
    LET l1 == Logged(l, "fetchModelPricing", l.model, lookup) IN
    IF isFailure(lookup) THEN Throw(l1, lookup.error)
    ELSE LET l2 == [l1 EXCEPT !.pricing = StrictLookup(lookup.value, l.model)] IN
         IF ~hasCompleteTokenPricing(l2.pricing) /\ HasAlias(l.model)
         THEN [l2 EXCEPT !.pc = "strictAlias"]
         ELSE RelaxedOrFinish(l2)

\* let aliasPricing = await this.getStrictPricing(alias), and on.
ResumeStrictAlias(l, lookup) ==
    LET alias == AliasOf(l.model)
        l1 == Logged(l, "fetchModelPricing", alias, lookup) IN
    IF isFailure(lookup) THEN Throw(l1, lookup.error)
    ELSE LET aliasPricing == StrictLookup(lookup.value, alias) IN
         IF ~hasCompleteTokenPricing(aliasPricing)
         THEN [l1 EXCEPT !.pc = "relaxedAlias"]
         ELSE RelaxedOrFinish([l1 EXCEPT !.pricing = aliasPricing])

\* Mutant of ResumeRelaxedAlias: a failure is taken for no entry.
ResumeRelaxedAlias_Swallow(l, lookup) ==
    LET l1 == Logged(l, "getModelPricing", AliasOf(l.model), lookup) IN
    IF ~isFailure(lookup) /\ hasCompleteTokenPricing(lookup.value)
    THEN RelaxedOrFinish([l1 EXCEPT !.pricing = lookup.value])
    ELSE RelaxedOrFinish(l1)

\* aliasPricing = await this.getRelaxedPricing(alias), and on.
ResumeRelaxedAlias(l, lookup) ==
    LET l1 == Logged(l, "getModelPricing", AliasOf(l.model), lookup) IN
    IF isFailure(lookup) THEN Throw(l1, lookup.error)
    ELSE IF hasCompleteTokenPricing(lookup.value)
         THEN RelaxedOrFinish([l1 EXCEPT !.pricing = lookup.value])
         ELSE RelaxedOrFinish(l1)

\* Mutant of ResumeRelaxedModel: the relaxed entry is never adopted.
ResumeRelaxedModel_NoAdopt(l, lookup) ==
    LET l1 == Logged(l, "getModelPricing", l.model, lookup) IN
    IF isFailure(lookup) THEN Throw(l1, lookup.error) ELSE Finish(l1)

\* const relaxedPricing = await this.getRelaxedPricing(model), and on.
ResumeRelaxedModel(l, lookup) ==
    LET l1 == Logged(l, "getModelPricing", l.model, lookup) IN
    IF isFailure(lookup) THEN Throw(l1, lookup.error)
    ELSE IF hasCompleteTokenPricing(lookup.value)
         THEN Finish([l1 EXCEPT !.pricing = lookup.value])
         ELSE Finish(l1)

\* ----------------------------------------------------------------- state
VARIABLES
    catalog,         \* the Catalog Accessor's key -> entry mapping
    accessor,        \* how the Catalog Accessor answers: anything ("any"),
                     \* or the same answer every time ("fixed")
    calls            \* call -> the locals of that getPricing call

vars == <<catalog, accessor, calls>>

\* The cost fields present in an entry that only a relaxed lookup finds:
\* none, the input cost alone, both costs, all three.
RelaxedShapes ==
    {{}, {"input_cost_per_token"},
     {"input_cost_per_token", "output_cost_per_token"}, CostFields}

\* The entries a relaxed lookup of `name` may answer: nothing, an entry of
\* the catalog, or an entry found under some other key.
RelaxedValues(cat, name) ==
    {NULL} \cup {cat[k] : k \in DOMAIN cat}
           \cup {Entry(Len(KeySeq) + ModelId(name), sh) : sh \in RelaxedShapes}

AllFetchResults(cat) ==
    {Success(cat), Failure(CatalogError("fetchModelPricing", ""))}

AllRelaxedResults(cat, name) ==
    {Success(v) : v \in RelaxedValues(cat, name)}
        \cup {Failure(CatalogError("getModelPricing", name))}

\* The results fetchModelPricing() may give now.
fetchResults ==
    IF accessor.mode = "any" THEN AllFetchResults(catalog)
    ELSE {accessor.fetch}

\* The results getModelPricing(name) may give now.
relaxedResults(name) ==
    IF accessor.mode = "any" THEN AllRelaxedResults(catalog, name)
    ELSE {accessor.relaxed[name]}

\* One getPricing call against any catalog and an accessor that may answer
\* anything.
Init ==
    /\ catalog \in Catalogs
    /\ accessor = [mode |-> "any"]
    /\ calls = [c \in {1} |-> IdleCall]

InFlight(c) == calls[c].pc \notin {"idle", "done"}

\* Call c after a resumption that leaves its locals as l.
Resumed(c, l) ==
    [calls EXCEPT ![c] =
        [l EXCEPT !.interleaved =
            @ \/ \E d \in DOMAIN calls \ {c} : InFlight(d)]]

\* getPricing(model) is called.
Invoke(c, m) ==
    /\ calls[c].pc = "idle"
    /\ calls' = [calls EXCEPT ![c] = StartCall(m)]
    /\ UNCHANGED <<catalog, accessor>>

\* Mutant of StrictModel: `pricing` is a field of the source object, which
\* every call in flight reads, instead of a local.
StrictModel_SharedPricing(c) ==
    /\ calls[c].pc = "strictModel"
    /\ \E lookup \in fetchResults :
          LET l == ResumeStrictModel(calls[c], lookup) IN
          calls' = [d \in DOMAIN calls |->
                      IF d = c THEN l
                      ELSE IF InFlight(d) THEN [calls[d] EXCEPT !.pricing = l.pricing]
                      ELSE calls[d]]
    /\ UNCHANGED <<catalog, accessor>>

\* The await of getStrictPricing(model) resumes.
StrictModel(c) ==
    /\ calls[c].pc = "strictModel"
    /\ \E lookup \in fetchResults :
          calls' = Resumed(c, ResumeStrictModel(calls[c], lookup))
    /\ UNCHANGED <<catalog, accessor>>

\* The await of getStrictPricing(alias) resumes.
StrictAlias(c) ==
    /\ calls[c].pc = "strictAlias"
    /\ \E lookup \in fetchResults :
          calls' = Resumed(c, ResumeStrictAlias(calls[c], lookup))
    /\ UNCHANGED <<catalog, accessor>>

\* The await of getRelaxedPricing(alias) resumes.
RelaxedAlias(c) ==
    /\ calls[c].pc = "relaxedAlias"
    /\ \E lookup \in relaxedResults(AliasOf(calls[c].model)) :
          calls' = Resumed(c, ResumeRelaxedAlias(calls[c], lookup))
    /\ UNCHANGED <<catalog, accessor>>

\* The await of getRelaxedPricing(model) resumes.
RelaxedModel(c) ==
    /\ calls[c].pc = "relaxedModel"
    /\ \E lookup \in relaxedResults(calls[c].model) :
          calls' = Resumed(c, ResumeRelaxedModel(calls[c], lookup))
    /\ UNCHANGED <<catalog, accessor>>

Next ==
    \/ \E c \in DOMAIN calls, m \in Models : Invoke(c, m)
    \/ \E c \in DOMAIN calls : StrictModel(c)
    \/ \E c \in DOMAIN calls : StrictAlias(c)
    \/ \E c \in DOMAIN calls : RelaxedAlias(c)
    \/ \E c \in DOMAIN calls : RelaxedModel(c)

Spec == Init /\ [][Next]_vars

\* ------------------------------------------- interleaved getPricing calls
\* Catalogs over the bare names alone.
ConcCatalogs ==
    UNION { { [k \in K |-> Entry(KeyId(k), sh[k])] : sh \in [K -> RelaxedShapes] }
            : K \in SUBSET Models }

\* What an accessor that answers the same every time answers to a relaxed
\* lookup of `name`: nothing, a complete entry, or a failure.
FixedRelaxedResults(name) ==
    {Success(NULL), Success(Entry(Len(KeySeq) + ModelId(name), CostFields)),
     Failure(CatalogError("getModelPricing", name))}

\* NumCalls getPricing calls against one unchanging catalog and an accessor
\* that answers the same every time.
InitConc ==
    /\ catalog \in ConcCatalogs
    /\ \E f \in AllFetchResults(catalog) :
       \E r \in [Models -> UNION {FixedRelaxedResults(n) : n \in Models}] :
          /\ \A n \in Models : r[n] \in FixedRelaxedResults(n)
          /\ accessor = [mode |-> "fixed", fetch |-> f, relaxed |-> r]
    /\ calls = [c \in 1..NumCalls |-> IdleCall]

SpecConc == InitConc /\ [][Next]_vars

\* One resumption of a call running alone against the fixed accessor.
SoloStep(l) ==
    CASE l.pc = "strictModel" -> ResumeStrictModel(l, accessor.fetch)
      [] l.pc = "strictAlias" -> ResumeStrictAlias(l, accessor.fetch)
      [] l.pc = "relaxedAlias" ->
            ResumeRelaxedAlias(l, accessor.relaxed[AliasOf(l.model)])
      [] l.pc = "relaxedModel" ->
            ResumeRelaxedModel(l, accessor.relaxed[l.model])
      [] OTHER -> l

\* getPricing(model) run alone, to its end (it has at most four awaits).
SoloRun(model) == SoloStep(SoloStep(SoloStep(SoloStep(StartCall(model)))))

\* ==================================================== the claims' terms
\* These state the specification's terms on their own, apart from the
\* definitions above that model the code.

Done(c) == calls[c].pc = "done"

Returned(c) == Done(c) /\ DOMAIN calls[c].outcome = {"returned"}

Threw(c) == Done(c) /\ DOMAIN calls[c].outcome = {"threw"}

ThrewNotFound(c) == Threw(c) /\ calls[c].outcome.threw.name = "Error"

\* A complete entry: both per-token costs present.
Complete(e) ==
    {"input_cost_per_token", "output_cost_per_token"} \subseteq DOMAIN e

PerMillion(n) == n * 1000000

\* The record the specification asks for a complete entry e.
Converted(e) ==
    [inputCostPerMToken |-> PerMillion(e["input_cost_per_token"]),
     cachedInputCostPerMToken |->
        IF "cache_read_input_token_cost" \in DOMAIN e
        THEN PerMillion(e["cache_read_input_token_cost"])
        ELSE PerMillion(e["input_cost_per_token"]),
     outputCostPerMToken |-> PerMillion(e["output_cost_per_token"])]

PrefixedKeys(name) ==
    <<name, "openai/" \o name, "azure/" \o name, "openrouter/openai/" \o name>>

\* The entry of the first key of PrefixedKeys(name) that exists, else NULL.
FirstExisting(cat, name) ==
    LET keys == PrefixedKeys(name)
        present == {i \in 1..Len(keys) : keys[i] \in DOMAIN cat}
    IN IF present = {} THEN NULL
       ELSE cat[keys[CHOOSE i \in present : \A j \in present : i <= j]]

\* The alias table of the specification.
SpecHasAlias(m) == m \in {"gpt-5-codex", "gpt-5.3-codex"}

SpecAlias(m) == IF m = "gpt-5-codex" THEN "gpt-5" ELSE "gpt-5.2-codex"

LogIndex(c) == 1..Len(calls[c].log)

NoFailure(c) == \A i \in LogIndex(c) : ~calls[c].log[i].failed

\* The entries a call has been given: those of the catalog and the answers
\* of its relaxed lookups.
SeenEntries(c) ==
    {catalog[k] : k \in DOMAIN catalog}
        \cup {calls[c].log[i].answer : i \in LogIndex(c)}

\* The relaxed lookup of `name` was made by call c and answered a complete
\* entry.
RelaxedComplete(c, name) ==
    \E i \in LogIndex(c) :
        /\ calls[c].log[i].op = "getModelPricing"
        /\ calls[c].log[i].for = name
        /\ ~calls[c].log[i].failed
        /\ Complete(calls[c].log[i].answer)

RelaxedAsked(c, name) ==
    \E i \in LogIndex(c) :
        calls[c].log[i].op = "getModelPricing" /\ calls[c].log[i].for = name

\* ================================================================ claims

\* C1: every getPricing call ends either returning a record whose three
\* fields are all computed from one complete entry it was given, or raising
\* an error; never a record from an incomplete entry, never fields of two
\* different entries.
C1_CompleteRecordOrError ==
    \A c \in DOMAIN calls :
        /\ Done(c) <=> calls[c].outcome # NULL
        /\ Done(c) => (Returned(c) \/ Threw(c))
        /\ Returned(c) =>
              \E e \in SeenEntries(c) :
                 /\ Complete(e)
                 /\ calls[c].outcome.returned = Converted(e)

\* A call returned while the catalog held an incomplete entry under the
\* model's own name and a second, complete entry.
C1_Witness ==
    \E c \in DOMAIN calls :
        /\ Returned(c)
        /\ calls[c].model \in DOMAIN catalog
        /\ ~Complete(catalog[calls[c].model])
        /\ "input_cost_per_token" \in DOMAIN catalog[calls[c].model]
        /\ \E k \in DOMAIN catalog : Complete(catalog[k])

\* C2: when the strict lookup of model is not complete, model has an alias and
\* the alias path yields a complete entry, getPricing returns the alias
\* entry's converted values and makes no relaxed lookup of the original name;
\* that lookup is made only when neither the strict lookup nor the alias path
\* produced a complete entry.
AliasPathEntries(c) ==
    LET a == SpecAlias(calls[c].model)
        strict == FirstExisting(catalog, a)
    IN IF Complete(strict) THEN {strict}
       ELSE {calls[c].log[i].answer : i \in
                {j \in LogIndex(c) : /\ calls[c].log[j].op = "getModelPricing"
                                     /\ calls[c].log[j].for = a
                                     /\ Complete(calls[c].log[j].answer)}}

C2_AliasBeforeRelaxed ==
    \A c \in DOMAIN calls :
        LET m == calls[c].model IN
        /\ ( /\ Done(c) /\ NoFailure(c)
             /\ SpecHasAlias(m)
             /\ ~Complete(FirstExisting(catalog, m))
             /\ AliasPathEntries(c) # {} )
           => /\ Returned(c)
              /\ \E e \in AliasPathEntries(c) :
                    calls[c].outcome.returned = Converted(e)
              /\ ~RelaxedAsked(c, m)
        /\ RelaxedAsked(c, m)
           => /\ ~Complete(FirstExisting(catalog, m))
              /\ SpecHasAlias(m) => AliasPathEntries(c) = {}

\* The model's own entry has token limits only, the alias's entry is complete,
\* and the call returned.
C2_Witness ==
    \E c \in DOMAIN calls :
        /\ Returned(c)
        /\ calls[c].model = "gpt-5.3-codex"
        /\ "gpt-5.3-codex" \in DOMAIN catalog
        /\ DOMAIN catalog["gpt-5.3-codex"] = {"max_tokens"}
        /\ Complete(FirstExisting(catalog, "gpt-5.2-codex"))

\* C3: the strict lookup of a name gives the entry of the first key, in the
\* order name, openai/name, azure/name, openrouter/openai/name, that exists
\* in the catalog, complete or not, and null when none exists.
C3_StrictFirstExisting ==
    /\ \A n \in Models : StrictLookup(catalog, n) = FirstExisting(catalog, n)
    /\ \A c \in DOMAIN calls :
          (Len(calls[c].log) = 1 /\ NoFailure(c))
             => calls[c].pricing = FirstExisting(catalog, calls[c].model)

\* After the strict lookup alone, the call holds an incomplete entry found
\* under a prefixed key while a later key holds a complete one.
C3_Witness ==
    \E c \in DOMAIN calls :
        LET m == calls[c].model IN
        /\ Len(calls[c].log) = 1 /\ NoFailure(c)
        /\ m \notin DOMAIN catalog
        /\ ("openai/" \o m) \in DOMAIN catalog
        /\ calls[c].pricing = catalog["openai/" \o m]
        /\ ~Complete(calls[c].pricing)
        /\ ("openrouter/openai/" \o m) \in DOMAIN catalog
        /\ Complete(catalog["openrouter/openai/" \o m])

\* C4: a failure of any Catalog Accessor call made during getPricing ends
\* the call with that same error, unwrapped, and no accessor call follows the
\* failing one, in the alias path too.
C4_FailurePropagates ==
    \A c \in DOMAIN calls :
        \A i \in LogIndex(c) :
            calls[c].log[i].failed =>
                /\ i = Len(calls[c].log)
                /\ Threw(c)
                /\ calls[c].outcome.threw = calls[c].log[i].error
                /\ calls[c].outcome.threw.name = "CatalogRetrievalError"

\* The relaxed lookup of the alias failed.
C4_Witness ==
    \E c \in DOMAIN calls :
        /\ Threw(c)
        /\ Len(calls[c].log) = 3
        /\ calls[c].log[3].failed
        /\ calls[c].log[3].op = "getModelPricing"
        /\ calls[c].log[3].for = SpecAlias(calls[c].model)

\* C5: when no accessor call fails, getPricing raises the not-found error
\* exactly when no avenue yields a complete entry (strict lookup of the model;
\* for a model with an alias, strict and relaxed lookup of the alias; relaxed
\* lookup of the model), and returns exactly when one does.
AnyAvenueComplete(c) ==
    LET m == calls[c].model IN
    \/ Complete(FirstExisting(catalog, m))
    \/ /\ SpecHasAlias(m)
       /\ \/ Complete(FirstExisting(catalog, SpecAlias(m)))
          \/ RelaxedComplete(c, SpecAlias(m))
    \/ RelaxedComplete(c, m)

C5_NotFoundIffNoAvenue ==
    \A c \in DOMAIN calls :
        (Done(c) /\ NoFailure(c)) =>
            /\ ThrewNotFound(c) <=> ~AnyAvenueComplete(c)
            /\ Returned(c) <=> AnyAvenueComplete(c)

\* A model with no alias, absent from the catalog, whose relaxed lookup
\* answered null, was not found.
C5_Witness ==
    \E c \in DOMAIN calls :
        /\ ThrewNotFound(c)
        /\ ~SpecHasAlias(calls[c].model)
        /\ FirstExisting(catalog, calls[c].model) = NULL
        /\ Len(calls[c].log) = 2
        /\ calls[c].log[2].op = "getModelPricing"
        /\ ~calls[c].log[2].failed
        /\ calls[c].log[2].answer = NULL

\* C6: the not-found error carries the originally requested model name, never
\* the alias name, also when the alias path was tried.
C6_NotFoundNamesModel ==
    \A c \in DOMAIN calls :
        ThrewNotFound(c) =>
            /\ calls[c].outcome.threw.message =
                  "Pricing not found for model " \o calls[c].model
            /\ SpecHasAlias(calls[c].model) =>
                  calls[c].outcome.threw.message #
                     "Pricing not found for model " \o SpecAlias(calls[c].model)

\* Not found after the alias path was tried.
C6_Witness ==
    \E c \in DOMAIN calls :
        /\ ThrewNotFound(c)
        /\ SpecHasAlias(calls[c].model)
        /\ Len(calls[c].log) = 4

\* C7: if the strict lookup of the model yields a complete entry, getPricing
\* returns that entry's converted values and the batch fetch is its only
\* accessor call; and once a complete entry is adopted no later step
\* replaces it.
C7_StrictCompleteIsFinal ==
    /\ [](\A c \in DOMAIN calls :
            ( /\ Done(c) /\ NoFailure(c)
              /\ Complete(FirstExisting(catalog, calls[c].model)) )
            => /\ Len(calls[c].log) = 1
               /\ Returned(c)
               /\ calls[c].outcome.returned =
                     Converted(FirstExisting(catalog, calls[c].model)))
    /\ [][\A c \in DOMAIN calls :
            Complete(calls[c].pricing) => calls'[c].pricing = calls[c].pricing]_vars

\* The strict entry of the model is complete, so is the alias's, and the
\* call returned.
C7_Witness ==
    \E c \in DOMAIN calls :
        /\ Returned(c)
        /\ SpecHasAlias(calls[c].model)
        /\ Complete(FirstExisting(catalog, calls[c].model))
        /\ Complete(FirstExisting(catalog, SpecAlias(calls[c].model)))

\* C8: a returned record built from entry e has e's input and output cost
\* times 1,000,000, and as cached-input cost e's cache-read cost times
\* 1,000,000 when e has one, else the record's input cost; e has both costs,
\* so the conversion's fallback to 0 gives no field.
C8_PerMillionConversion ==
    \A c \in DOMAIN calls :
        Returned(c) =>
            LET e == calls[c].pricing
                r == calls[c].outcome.returned IN
            /\ "input_cost_per_token" \in DOMAIN e
            /\ "output_cost_per_token" \in DOMAIN e
            /\ r.inputCostPerMToken = e["input_cost_per_token"] * 1000000
            /\ r.outputCostPerMToken = e["output_cost_per_token"] * 1000000
            /\ r.cachedInputCostPerMToken =
                  IF "cache_read_input_token_cost" \in DOMAIN e
                  THEN e["cache_read_input_token_cost"] * 1000000
                  ELSE r.inputCostPerMToken

\* A record built from an entry without a cache-read cost and with a
\* non-zero input cost.
C8_Witness ==
    \E c \in DOMAIN calls :
        /\ Returned(c)
        /\ "cache_read_input_token_cost" \notin DOMAIN calls[c].pricing
        /\ calls[c].outcome.returned.cachedInputCostPerMToken > 0

\* C9: getPricing calls interleaved at their awaits against one unchanging
\* catalog each end as they end when run alone; no step changes the catalog,
\* the accessor's answers or another call's locals.
C9_InterleavingImmaterial ==
    /\ [](\A c \in DOMAIN calls :
            Done(c) => calls[c].outcome = SoloRun(calls[c].model).outcome)
    /\ [][ /\ catalog' = catalog
           /\ accessor' = accessor
           /\ \A c \in DOMAIN calls :
                 calls'[c].pc # calls[c].pc =>
                    \A d \in DOMAIN calls \ {c} : calls'[d] = calls[d] ]_vars

\* Two calls, both resumed while the other was in flight, both ended after
\* at least two awaits, one returning and one raising.
C9_Witness ==
    \E c \in DOMAIN calls, d \in DOMAIN calls :
        /\ c # d
        /\ calls[c].interleaved /\ calls[d].interleaved
        /\ Returned(c) /\ Threw(d)
        /\ Len(calls[c].log) >= 2 /\ Len(calls[d].log) >= 2

\* C10: the accessor calls of a getPricing call are, in order, some of: batch
\* fetch for the model, batch fetch for the alias, relaxed lookup of the
\* alias, relaxed lookup of the model; each at most once, the alias's only
\* when the model has an alias, and no other name is looked up.
RECURSIVE Embeds(_, _, _, _)
Embeds(s, i, t, j) ==
    IF i > Len(s) THEN TRUE
    ELSE IF j > Len(t) THEN FALSE
    ELSE IF s[i] = t[j] THEN Embeds(s, i + 1, t, j + 1)
    ELSE Embeds(s, i, t, j + 1)

AccessorCalls(c) ==
    [i \in LogIndex(c) |-> <<calls[c].log[i].op, calls[c].log[i].for>>]

AllowedCalls(m) ==
    IF SpecHasAlias(m)
    THEN << <<"fetchModelPricing", m>>, <<"fetchModelPricing", SpecAlias(m)>>,
            <<"getModelPricing", SpecAlias(m)>>, <<"getModelPricing", m>> >>
    ELSE << <<"fetchModelPricing", m>>, <<"getModelPricing", m>> >>

C10_AccessorCallOrder ==
    \A c \in DOMAIN calls :
        /\ Embeds(AccessorCalls(c), 1, AllowedCalls(calls[c].model), 1)
        /\ calls[c].log # <<>> =>
              AccessorCalls(c)[1] = <<"fetchModelPricing", calls[c].model>>

\* A call that made all four accessor calls.
C10_Witness ==
    \E c \in DOMAIN calls :
        /\ Done(c)
        /\ Len(calls[c].log) = 4
        /\ calls[c].log[2].op = "fetchModelPricing"
        /\ calls[c].log[4].op = "getModelPricing"

====
